---- MODULE Spec2Model ----
(***************************************************************************)
(* Ragify (src/app.py): the Streamlit chat script as a state machine.      *)
(*                                                                         *)
(* One state of the model is the session between two executions ("passes") *)
(* of main(): st.session_state, the widget values that persist, the        *)
(* process environment, and a record of what the last pass did.  One       *)
(* action is one whole pass of main() for one delivered event.             *)
(*                                                                         *)
(* A text is a sequence of tokens; the token " " is whitespace.  Python's  *)
(* None is the distinguished value None below.                             *)
(***************************************************************************)
EXTENDS Integers, Sequences, FiniteSets, TLC

\* ---------------------------------------------------------------- bounds
\* Submissions accepted in one behaviour (caps the counters and the length
\* of the conversation).
MaxSubmissions == 2

\* ------------------------------------------------------- values and texts
None == <<"<None>">>

\* Python truthiness of an Optional[str].
Truthy(v) == v # None /\ v # <<>>

\* Python's `a or b`.
PyOr(a, b) == IF Truthy(a) THEN a ELSE b

RECURSIVE LStrip(_)
LStrip(s) == IF s # <<>> /\ Head(s) = " " THEN LStrip(Tail(s)) ELSE s

RECURSIVE RStrip(_)
RStrip(s) ==
    IF s # <<>> /\ s[Len(s)] = " " THEN RStrip(SubSeq(s, 1, Len(s) - 1)) ELSE s

\* str.strip()
Strip(s) == RStrip(LStrip(s))

SYSTEM_PROMPT == <<"### System Instructions: RAG & Retriever Expert">>
GroundingFraming ==
    <<"You must use the following PDF knowledge base as grounding context for your answers.">>
FallbackText == <<"I could not generate a response. Try rephrasing your question.">>
ErrorPrefix == <<"Something went wrong while calling the model: ">>
ErrorSuffix == <<"(closing backquote)">>

\* The text _load_pdf_context_text returns for the document (cached).
PdfContextText == <<"pdf text">>

\* ------------------------------------------------------------ input sets
\* Texts the user may submit through st.chat_input.
UserTexts == {<<"q1">>, <<"q2">>}

\* Values of the sidebar's API key field.
KeyInputs == {<<>>, <<" ">>, <<"uk">>}

\* Values of GOOGLE_API_KEY and of GEMINI_API_KEY in the environment.
GoogleEnvValues == {None, <<" ">>, <<"gk">>}
GeminiEnvValues == {None, <<"mk">>}

\* What model.invoke does: returns a reply with a content, or raises.
BackendOutcomes ==
    {[ok |-> TRUE, content |-> <<" ", "answer", " ">>],
     [ok |-> TRUE, content |-> <<>>],
     [ok |-> TRUE, content |-> <<" ">>],
     [ok |-> TRUE, content |-> None],
     [ok |-> FALSE, content |-> <<"quota exceeded">>]}

NoOutcome == [ok |-> TRUE, content |-> <<"<no call>">>]

\* ---------------------------------------------------------------- state
VARIABLES
    session_state,   \* st.session_state: keys present, and their values
    api_key_input,   \* value of the sidebar text_input (kept between passes)
    environ,         \* os.environ: GOOGLE_API_KEY, GEMINI_API_KEY
    pdf_exists,      \* PDF_PATH.exists()
    rerun_requested, \* the last pass ended in st.rerun()
    last_event,      \* the event the last pass was run for
    last_exit,       \* where the last pass left main()
    last_call,       \* the backend call of the last pass, if it made one
    accepted,        \* submissions captured (line 170) so far
    backend_calls,   \* calls of _generate_assistant_reply so far
    completed,       \* generation passes that reached line 209 so far
    cut_short,       \* generation passes that were stopped before line 207
    resolved         \* what the call of _get_gemini_api_key under check
                     \* returned (ResolveSpec)

vars == <<session_state, api_key_input, environ, pdf_exists, rerun_requested,
          last_event, last_exit, last_call, accepted, backend_calls, completed,
          cut_short, resolved>>

NoCall == [made |-> FALSE, chat_history |-> <<>>, user_text |-> None,
           lc_messages |-> <<>>, outcome |-> NoOutcome]

\* A session with no key set: the state before the first pass.
EmptySession ==
    [keys |-> {}, messages |-> <<>>, is_generating |-> FALSE,
     pending_user_text |-> None]

\* ------------------------------------------------------ pieces of main()
\* Mutant: the session fields are set in every pass, not only when missing.
InitSessionState_Unconditional(ss) ==
    [keys |-> {"messages", "is_generating", "pending_user_text"},
     messages |-> <<>>,
     is_generating |->
        IF "is_generating" \in ss.keys THEN ss.is_generating ELSE FALSE,
     pending_user_text |->
        IF "pending_user_text" \in ss.keys THEN ss.pending_user_text ELSE None]

\* Lines 125-130: set the keys that are missing.
InitSessionState(ss) ==
    [keys |-> ss.keys \cup {"messages", "is_generating", "pending_user_text"},
     messages |-> IF "messages" \in ss.keys THEN ss.messages ELSE <<>>,
     is_generating |->
        IF "is_generating" \in ss.keys THEN ss.is_generating ELSE FALSE,
     pending_user_text |->
        IF "pending_user_text" \in ss.keys THEN ss.pending_user_text ELSE None]

\* Mutant: the clear resets the whole session (st.session_state.clear()).
ClearChat_ResetsAll(ss) ==
    [keys |-> {}, messages |-> <<>>, is_generating |-> FALSE,
     pending_user_text |-> None]

\* Line 142: st.session_state.pop("messages", None).
ClearChat(ss) ==
    [ss EXCEPT !.keys = @ \ {"messages"}, !.messages = <<>>]

\* Mutant: a built-in key is used when none is configured.
get_gemini_api_key_Default(user_input_key, env) ==
    LET key == Strip(PyOr(user_input_key, <<>>))
    IN  IF Truthy(key)
        THEN key
        ELSE PyOr(Strip(PyOr(PyOr(env.GOOGLE_API_KEY, env.GEMINI_API_KEY), <<>>)),
                  <<"default key">>)

\* Lines 66-70.
get_gemini_api_key(user_input_key, env) ==
    LET key == Strip(PyOr(user_input_key, <<>>))
    IN  IF Truthy(key)
        THEN key
        ELSE Strip(PyOr(PyOr(env.GOOGLE_API_KEY, env.GEMINI_API_KEY), <<>>))

\* Mutant: the chat input is never disabled.
chat_input_NeverDisabled(disabled, submitted) == submitted

\* Lines 164-167: a disabled chat input delivers nothing.
chat_input(disabled, submitted) == IF disabled THEN None ELSE submitted

\* Mutant: the submission is stored but is_generating is not set.
CaptureSubmission_NoFlag(ss, user_text) ==
    [ss EXCEPT !.pending_user_text = user_text]

\* Mutant: the pass that captures the submission appends its user turn at
\* once.
CaptureSubmission_AppendsTurn(ss, user_text) ==
    [ss EXCEPT !.pending_user_text = user_text, !.is_generating = TRUE,
               !.messages = Append(@, [role |-> "user", content |-> user_text])]

\* Lines 170-171.
CaptureSubmission(ss, user_text) ==
    [ss EXCEPT !.pending_user_text = user_text, !.is_generating = TRUE]

\* Mutant: the pending text is not appended as a user turn.
AppendUserTurn_Skipped(ss, pending_text) == ss

\* Line 179.
AppendUserTurn(ss, pending_text) ==
    [ss EXCEPT !.messages =
        Append(@, [role |-> "user", content |-> pending_text])]

\* Mutant: only the user's turns of the history are replayed.
RECURSIVE HistoryMessages_UserOnly(_)
HistoryMessages_UserOnly(chat_history) ==
    IF chat_history = <<>> THEN <<>>
    ELSE LET m == Head(chat_history)
             rest == HistoryMessages_UserOnly(Tail(chat_history))
         IN  IF m.role = "user"
             THEN <<[type |-> "human", content |-> m.content]>> \o rest
             ELSE rest

\* Lines 96-102: one LangChain message per history turn.
RECURSIVE HistoryMessages(_)
HistoryMessages(chat_history) ==
    IF chat_history = <<>> THEN <<>>
    ELSE LET m == Head(chat_history)
             rest == HistoryMessages(Tail(chat_history))
         IN  IF m.role = "user"
             THEN <<[type |-> "human", content |-> m.content]>> \o rest
             ELSE IF m.role = "assistant"
             THEN <<[type |-> "ai", content |-> m.content]>> \o rest
             ELSE rest

\* Lines 80-105.
build_langchain_messages(chat_history, user_text, pdf_context_text) ==
    <<[type |-> "system", content |-> SYSTEM_PROMPT],
      [type |-> "system", content |-> GroundingFraming \o pdf_context_text]>>
    \o HistoryMessages(chat_history)
    \o <<[type |-> "human", content |-> user_text]>>

\* Mutant: the reply text is not stripped.
generate_assistant_reply_NoStrip(outcome) ==
    IF outcome.ok
    THEN [raised |-> FALSE, value |-> PyOr(outcome.content, <<>>)]
    ELSE [raised |-> TRUE, value |-> outcome.content]

\* Lines 108-115: the stripped reply text, or the exception model.invoke
\* raised.
generate_assistant_reply(outcome) ==
    IF outcome.ok
    THEN [raised |-> FALSE, value |-> Strip(PyOr(outcome.content, <<>>))]
    ELSE [raised |-> TRUE, value |-> outcome.content]

\* Mutant: a blank reply is stored as it is (line 198 left out).
AssistantText_NoFallback(result) ==
    IF result.raised
    THEN ErrorPrefix \o result.value \o ErrorSuffix
    ELSE result.value

\* Lines 186-200: the text shown and stored for the assistant.
AssistantText(result) ==
    IF result.raised
    THEN ErrorPrefix \o result.value \o ErrorSuffix
    ELSE IF ~Truthy(result.value) THEN FallbackText ELSE result.value

\* Mutant: the flags are reset but the reply is not stored.
CommitAssistantTurn_NoAppend(ss, assistant_text) ==
    [ss EXCEPT !.pending_user_text = None, !.is_generating = FALSE]

\* Mutant: is_generating is not reset after the reply is stored.
CommitAssistantTurn_KeepsGenerating(ss, assistant_text) ==
    [ss EXCEPT !.messages =
                  Append(@, [role |-> "assistant", content |-> assistant_text]),
               !.pending_user_text = None]

\* Mutant: pending_user_text is not reset after the reply is stored.
CommitAssistantTurn_KeepsPending(ss, assistant_text) ==
    [ss EXCEPT !.messages =
                  Append(@, [role |-> "assistant", content |-> assistant_text]),
               !.is_generating = FALSE]

\* Lines 204-208.
CommitAssistantTurn(ss, assistant_text) ==
    [ss EXCEPT !.messages =
                  Append(@, [role |-> "assistant", content |-> assistant_text]),
               !.pending_user_text = None,
               !.is_generating = FALSE]

\* Mutant: no try/except around the backend call: an exception ends the pass
\* after the user turn was appended.
Generate_NoExcept(ss, pending_text, outcome) ==
    LET ss2 == [ss EXCEPT !.messages =
                   Append(@, [role |-> "user", content |-> pending_text])]
        chat_history == SubSeq(ss2.messages, 1, Len(ss2.messages) - 1)
        lc_messages ==
            <<[type |-> "system", content |-> SYSTEM_PROMPT],
              [type |-> "system", content |-> GroundingFraming \o PdfContextText]>>
            \o HistoryMessages(chat_history)
            \o <<[type |-> "human", content |-> pending_text]>>
        call == [made |-> TRUE, chat_history |-> chat_history,
                 user_text |-> pending_text, lc_messages |-> lc_messages,
                 outcome |-> outcome]
        reply == Strip(PyOr(outcome.content, <<>>))
    IN  IF ~outcome.ok
        THEN [ss |-> ss2, exit |-> "exception", call |-> call]
        ELSE [ss |-> [ss2 EXCEPT
                        !.messages =
                            Append(@, [role |-> "assistant",
                                       content |-> PyOr(reply, FallbackText)]),
                        !.pending_user_text = None,
                        !.is_generating = FALSE],
              exit |-> "rerun_generated", call |-> call]

\* Mutant: the whole of messages, the turn just appended included, is given
\* as the history (messages instead of messages[:-1]).
Generate_FullHistory(ss, pending_text, outcome) ==
    LET ss2 == AppendUserTurn(ss, pending_text)
        chat_history == ss2.messages
        lc_messages ==
            build_langchain_messages(chat_history, pending_text, PdfContextText)
        assistant_text == AssistantText(generate_assistant_reply(outcome))
    IN  [ss |-> CommitAssistantTurn(ss2, assistant_text),
         exit |-> "rerun_generated",
         call |-> [made |-> TRUE, chat_history |-> chat_history,
                   user_text |-> pending_text, lc_messages |-> lc_messages,
                   outcome |-> outcome]]

\* Lines 174-209: the generation part of a pass, reached with a pending text.
Generate(ss, pending_text, outcome) ==
    LET ss2 == AppendUserTurn(ss, pending_text)
        chat_history == SubSeq(ss2.messages, 1, Len(ss2.messages) - 1)
        lc_messages ==
            build_langchain_messages(chat_history, pending_text, PdfContextText)
        assistant_text == AssistantText(generate_assistant_reply(outcome))
    IN  [ss |-> CommitAssistantTurn(ss2, assistant_text),
         exit |-> "rerun_generated",
         call |-> [made |-> TRUE, chat_history |-> chat_history,
                   user_text |-> pending_text, lc_messages |-> lc_messages,
                   outcome |-> outcome]]

\* Lines 118-209: one pass of main().  clear_clicked and submitted are the
\* values the button and the chat input deliver in this pass.
main(ss0, key_input, clear_clicked, submitted, env, pdf, outcome) ==
    LET ss == InitSessionState(ss0)
        api_key == get_gemini_api_key(key_input, env)
        user_text == chat_input(ss.is_generating, submitted)
    IN  IF clear_clicked
        THEN [ss |-> ClearChat(ss), exit |-> "rerun_clear", call |-> NoCall]
        ELSE IF ~Truthy(api_key)
        THEN [ss |-> ss, exit |-> "stop_no_key", call |-> NoCall]
        ELSE IF ~pdf
        THEN [ss |-> ss, exit |-> "stop_no_pdf", call |-> NoCall]
        ELSE IF Truthy(user_text)
        THEN [ss |-> CaptureSubmission(ss, user_text),
              exit |-> "rerun_submit", call |-> NoCall]
        ELSE IF ~Truthy(ss.pending_user_text)
        THEN [ss |-> ss, exit |-> "return", call |-> NoCall]
        ELSE Generate(ss, ss.pending_user_text, outcome)

\* The exits of main() that end in st.rerun() (lines 143, 172, 209).
RerunExits == {"rerun_clear", "rerun_submit", "rerun_generated"}

\* ---------------------------------------------------------------- actions
Init ==
    /\ session_state = EmptySession
    /\ api_key_input \in KeyInputs
    /\ environ \in [GOOGLE_API_KEY : GoogleEnvValues,
                    GEMINI_API_KEY : GeminiEnvValues]
    /\ pdf_exists \in BOOLEAN
    /\ rerun_requested = FALSE
    /\ last_event = [kind |-> "init", text |-> None]
    /\ last_exit = "none"
    /\ last_call = NoCall
    /\ accepted = 0
    /\ backend_calls = 0
    /\ completed = 0
    /\ cut_short = 0
    /\ resolved = None

\* What the backend may do in a pass: it is asked only in a pass that reaches
\* line 193.
OutcomesOf(key_input, clear_clicked, submitted) ==
    LET probe == main(session_state, key_input, clear_clicked, submitted,
                      environ, pdf_exists, NoOutcome)
    IN  IF probe.call.made THEN BackendOutcomes ELSE {NoOutcome}

\* One pass of main() for the event ev, with the key field holding key_input.
Pass(ev, key_input, clear_clicked, submitted) ==
    \E outcome \in OutcomesOf(key_input, clear_clicked, submitted) :
        LET r == main(session_state, key_input, clear_clicked, submitted,
                      environ, pdf_exists, outcome)
        IN  /\ session_state' = r.ss
            /\ api_key_input' = key_input
            /\ rerun_requested' = (r.exit \in RerunExits)
            /\ last_event' = ev
            /\ last_exit' = r.exit
            /\ last_call' = r.call
            /\ accepted' = accepted + (IF r.exit = "rerun_submit" THEN 1 ELSE 0)
            /\ backend_calls' = backend_calls + (IF r.call.made THEN 1 ELSE 0)
            /\ completed' = completed + (IF r.exit = "rerun_generated" THEN 1 ELSE 0)
            /\ UNCHANGED <<environ, pdf_exists, cut_short, resolved>>

\* The script is run again with no new widget event: the run st.rerun()
\* asked for, or any other re-execution.
RerunPass ==
    Pass([kind |-> "rerun", text |-> None], api_key_input, FALSE, None)

\* The user submits text t in the chat input.
SubmitPass(t) ==
    /\ accepted < MaxSubmissions
    /\ Pass([kind |-> "submit", text |-> t], api_key_input, FALSE, t)

\* The user clicks "Clear chat".
ClearPass ==
    Pass([kind |-> "clear", text |-> None], api_key_input, TRUE, None)

\* The user edits the API key field.
KeyChangePass(k) ==
    /\ k # api_key_input
    /\ Pass([kind |-> "key", text |-> None], k, FALSE, None)

\* The document appears or disappears on disk; no pass runs.
PdfChange ==
    /\ pdf_exists' = ~pdf_exists
    /\ last_event' = [kind |-> "fs", text |-> None]
    /\ UNCHANGED <<session_state, api_key_input, environ, rerun_requested,
                   last_exit, last_call, accepted, backend_calls, completed,
                   cut_short, resolved>>

Next ==
    \/ RerunPass
    \/ \E t \in UserTexts : SubmitPass(t)
    \/ ClearPass
    \/ \E k \in KeyInputs : KeyChangePass(k)
    \/ PdfChange

Spec == Init /\ [][Next]_vars

\* The sessions of a process started without GOOGLE_API_KEY.
FairInit == Init /\ environ.GOOGLE_API_KEY = None

\* st.rerun() runs the script again: a requested re-run is not postponed
\* for ever.
FairSpec ==
    FairInit /\ [][Next]_vars /\ WF_vars(rerun_requested /\ RerunPass)

\* ----------------------------------------- a generation pass cut short
\* Generation passes that may be cut short in one behaviour.
MaxCutShort == 1

\* A generation pass that is stopped after line 179 and before line 207: the
\* script runner ends the run at one of the st.* calls in between (lines
\* 180-202) and runs the script again.  The user turn is appended, nothing
\* else is stored; the backend may or may not have been called.
CutShortPass ==
    LET ss == InitSessionState(session_state)
        api_key == get_gemini_api_key(api_key_input, environ)
    IN  /\ cut_short < MaxCutShort
        /\ Truthy(api_key)
        /\ pdf_exists
        /\ Truthy(ss.pending_user_text)
        /\ session_state' = AppendUserTurn(ss, ss.pending_user_text)
        /\ \E called \in BOOLEAN :
              backend_calls' = backend_calls + (IF called THEN 1 ELSE 0)
        /\ cut_short' = cut_short + 1
        /\ rerun_requested' = TRUE
        /\ last_event' = [kind |-> "rerun", text |-> None]
        /\ last_exit' = "cut_short"
        /\ last_call' = NoCall
        /\ UNCHANGED <<api_key_input, environ, pdf_exists, accepted, completed,
                       resolved>>

InterruptNext == Next \/ CutShortPass

\* The passes of Spec, and generation passes that are cut short.
InterruptSpec == Init /\ [][InterruptNext]_vars

\* ------------------------------------- the prompt assembler on its own
\* Length of the histories given to _build_langchain_messages.
MaxHistory == 3

\* Turns a history may hold: any role, in any arrangement.
HistoryTurns ==
    {[role |-> r, content |-> c] :
        r \in {"user", "assistant"}, c \in {<<"q1">>, <<"answer">>}}

Histories == UNION {[1..n -> HistoryTurns] : n \in 0..MaxHistory}

\* The arguments of one call of _build_langchain_messages are drawn; the
\* rest of the state is not used.
BuildInit ==
    /\ session_state = EmptySession
    /\ api_key_input = <<>>
    /\ environ = [GOOGLE_API_KEY |-> None, GEMINI_API_KEY |-> None]
    /\ pdf_exists = TRUE
    /\ rerun_requested = FALSE
    /\ last_event = [kind |-> "init", text |-> None]
    /\ last_exit = "none"
    /\ \E h \in Histories, t \in UserTexts :
          last_call = [NoCall EXCEPT !.chat_history = h, !.user_text = t]
    /\ accepted = 0
    /\ backend_calls = 0
    /\ completed = 0
    /\ cut_short = 0
    /\ resolved = None

\* The call: lc_messages receives what the function returns.
BuildStep ==
    /\ ~last_call.made
    /\ last_call' =
          [last_call EXCEPT
              !.made = TRUE,
              !.lc_messages =
                  build_langchain_messages(last_call.chat_history,
                                           last_call.user_text, PdfContextText)]
    /\ UNCHANGED <<session_state, api_key_input, environ, pdf_exists,
                   rerun_requested, last_event, last_exit, accepted,
                   backend_calls, completed, cut_short, resolved>>

BuildNext == BuildStep

BuildSpec == BuildInit /\ [][BuildNext]_vars

\* ----------------------------------- the credential resolver on its own
\* Values of the key field and of the two environment variables given to
\* _get_gemini_api_key: missing, empty, blank, a key, a key with blanks
\* around it.
ResolveKeyInputs == {<<>>, <<" ">>, <<"uk">>, <<" ", "uk", " ">>}
ResolveGoogleValues == {None, <<>>, <<" ">>, <<"gk">>, <<" ", "gk">>}
ResolveGeminiValues == {None, <<>>, <<" ">>, <<"mk">>, <<"mk", " ">>}

\* The marker resolved holds after the call was made.
Resolved(key) == <<"resolved">> \o key

\* The arguments of one call of _get_gemini_api_key are drawn; the rest of
\* the state is not used.
ResolveInit ==
    /\ session_state = EmptySession
    /\ api_key_input \in ResolveKeyInputs
    /\ environ \in [GOOGLE_API_KEY : ResolveGoogleValues,
                    GEMINI_API_KEY : ResolveGeminiValues]
    /\ pdf_exists = TRUE
    /\ rerun_requested = FALSE
    /\ last_event = [kind |-> "init", text |-> None]
    /\ last_exit = "none"
    /\ last_call = NoCall
    /\ accepted = 0
    /\ backend_calls = 0
    /\ completed = 0
    /\ cut_short = 0
    /\ resolved = None

\* The call (line 147): resolved receives what the function returns.
ResolveStep ==
    /\ resolved = None
    /\ resolved' = Resolved(get_gemini_api_key(api_key_input, environ))
    /\ UNCHANGED <<session_state, api_key_input, environ, pdf_exists,
                   rerun_requested, last_event, last_exit, last_call, accepted,
                   backend_calls, completed, cut_short>>

ResolveNext == ResolveStep

ResolveSpec == ResolveInit /\ [][ResolveNext]_vars

\* ------------------------------------------------------------- shorthands
Conversation == session_state.messages
PendingInput == session_state.pending_user_text
GenerationInFlight == session_state.is_generating
Idle == ~GenerationInFlight /\ ~Truthy(PendingInput)

TypeOK ==
    /\ session_state.keys \subseteq {"messages", "is_generating", "pending_user_text"}
    /\ session_state.is_generating \in BOOLEAN
    /\ Len(session_state.messages) <= 2 * MaxSubmissions
    /\ accepted \in 0..MaxSubmissions
    /\ backend_calls \in 0..MaxSubmissions
    /\ completed \in 0..MaxSubmissions

\* The events for which a pass of main() runs.
PassKinds == {"rerun", "submit", "clear", "key"}

UserTurn(text) == [role |-> "user", content |-> text]
AssistantTurn(text) == [role |-> "assistant", content |-> text]

\* ----------------------------------------------------------------- claims

C2_FlagIffPending ==
    /\ [](GenerationInFlight <=> Truthy(PendingInput))
    /\ [][/\ (~GenerationInFlight /\ GenerationInFlight') =>
               (last_exit' = "rerun_submit" /\ Truthy(PendingInput'))
          /\ (GenerationInFlight /\ ~GenerationInFlight') =>
               (last_exit' = "rerun_generated" /\ ~Truthy(PendingInput'))
         ]_vars

\* C2 witness: a snapshot taken after a clear pass that ran while a
\* submission was pending.
C2_Witness ==
    /\ GenerationInFlight
    /\ Truthy(PendingInput)
    /\ last_exit = "rerun_clear"
    /\ completed >= 1

C4_FailureCompletesCycle ==
    (last_call.made /\ ~last_call.outcome.ok) =>
        LET n == Len(Conversation)
            detail == last_call.outcome.content
            m == Len(ErrorPrefix) + Len(detail)
        IN  /\ last_exit = "rerun_generated"
            /\ n >= 2
            /\ Conversation[n - 1] = UserTurn(last_call.user_text)
            /\ Conversation[n].role = "assistant"
            /\ Len(Conversation[n].content) >= m
            /\ SubSeq(Conversation[n].content, 1, m) = ErrorPrefix \o detail
            /\ PendingInput = None
            /\ ~GenerationInFlight

\* C4 witness: the second submission's backend call raised.
C4_Witness ==
    /\ last_call.made
    /\ ~last_call.outcome.ok
    /\ completed = 2
    /\ Len(Conversation) = 4

\* C5: a pass run for a click on "Clear chat" leaves an empty Conversation
\* and leaves is_generating and pending_user_text as they were.
C5_ClearOnlyEmptiesConversation ==
    [][last_event'.kind = "clear" =>
          /\ Conversation' = <<>>
          /\ GenerationInFlight' = GenerationInFlight
          /\ PendingInput' = PendingInput
          /\ last_exit' = "rerun_clear"
      ]_vars

\* C5 witness: a clear pass ran while a submission was pending, after an
\* earlier cycle had put turns into the Conversation.
C5_Witness ==
    /\ last_event.kind = "clear"
    /\ Conversation = <<>>
    /\ GenerationInFlight
    /\ PendingInput \in UserTexts
    /\ completed >= 1

\* A pass halted at the credential check (line 150) or at the document
\* check (line 154).
Halted == last_exit \in {"stop_no_key", "stop_no_pdf"}

\* C6 as stated: once a submission is accepted, the machine is eventually
\* Idle again.
C6_Original == GenerationInFlight ~> Idle

\* C6 as amended: once a submission is accepted, eventually either the
\* machine is Idle again or a pass has halted at the credential check or at
\* the document check, leaving the submission pending.
C6_CycleCompletesUnlessHalted == GenerationInFlight ~> (Idle \/ Halted)

\* C6 witness: a cycle completed: the machine is Idle again after the
\* generation pass of an accepted submission.
C6_Witness ==
    /\ Idle
    /\ last_exit = "rerun_generated"
    /\ completed = 1
    /\ accepted = 1
    /\ Len(Conversation) = 2
    /\ last_call.chat_history = <<>>

NoCredential ==
    /\ ~Truthy(Strip(api_key_input))
    /\ environ.GOOGLE_API_KEY = None
    /\ environ.GEMINI_API_KEY = None

\* C10 as stated: a pass in which no credential resolves changes nothing of
\* the Conversation, starts no generation, and halts at the informational
\* message (the re-run a clear asks for is counted with the pass of the
\* click: it is that re-run which halts at the message).
C10_Original ==
    [][(last_event'.kind \in PassKinds /\ NoCredential') =>
          /\ Conversation' = Conversation
          /\ accepted' = accepted
          /\ GenerationInFlight' = GenerationInFlight
          /\ ~last_call'.made
          /\ last_exit' \in {"stop_no_key", "rerun_clear"}
      ]_vars

\* C10 as amended: a pass in which no credential resolves and "Clear chat"
\* was not clicked changes nothing of the Conversation, starts no generation,
\* and halts at the informational message.  (A pass run for a click on "Clear
\* chat" empties the Conversation and re-runs before the credential check.)
C10_NoCredentialNoMutation ==
    [][(last_event'.kind \in PassKinds \ {"clear"} /\ NoCredential') =>
          /\ Conversation' = Conversation
          /\ PendingInput' = PendingInput
          /\ accepted' = accepted
          /\ GenerationInFlight' = GenerationInFlight
          /\ ~last_call'.made
          /\ last_exit' = "stop_no_key"
      ]_vars

\* C10 witness: a pass halted for want of a credential while a submission
\* was pending and the Conversation held turns.
C10_Witness ==
    /\ NoCredential
    /\ last_exit = "stop_no_key"
    /\ last_event.kind = "key"
    /\ GenerationInFlight
    /\ Len(Conversation) = 2

\* The LangChain message type that stands for a turn's role.
TypeOfRole(role) == IF role = "user" THEN "human" ELSE "ai"

\* C9: for a history of N turns, each of role user or assistant, the
\* assembler returns N + 3 messages: the system message with the
\* instructions, the system message with the framing and the grounding
\* context, one message per turn with the turn's role and content in the
\* history's order, and last a human message holding the new user text.
C9_BuildMessagesShape ==
    last_call.made =>
        LET h == last_call.chat_history
            msgs == last_call.lc_messages
            N == Len(h)
        IN  /\ Len(msgs) = N + 3
            /\ msgs[1] = [type |-> "system", content |-> SYSTEM_PROMPT]
            /\ msgs[2] = [type |-> "system",
                          content |-> GroundingFraming \o PdfContextText]
            /\ \A i \in 1..N :
                  msgs[i + 2] = [type |-> TypeOfRole(h[i].role),
                                 content |-> h[i].content]
            /\ msgs[N + 3] = [type |-> "human", content |-> last_call.user_text]

\* C9 witness: the assembler was applied to a history of three turns that
\* starts with an assistant turn and holds two user turns in a row.
C9_Witness ==
    /\ last_call.made
    /\ Len(last_call.chat_history) = 3
    /\ last_call.chat_history[1].role = "assistant"
    /\ last_call.chat_history[2].role = "user"
    /\ last_call.chat_history[3].role = "user"
    /\ Len(last_call.lc_messages) = 6
\* A reply text that is empty or holds whitespace only.
IsBlankText(content) ==
    content # None /\ \A i \in 1..Len(content) : content[i] = " "

\* C11: when the backend call succeeded with an empty or whitespace-only
\* text, the pass ended like a successful one: the user turn is followed by
\* an Assistant Turn whose content is exactly the fallback message,
\* PendingInput is empty and is_generating is false.
C11_BlankReplyGetsFallback ==
    (last_call.made /\ last_call.outcome.ok
        /\ IsBlankText(last_call.outcome.content)) =>
        LET n == Len(Conversation)
        IN  /\ last_exit = "rerun_generated"
            /\ rerun_requested
            /\ n >= 2
            /\ Conversation[n - 1] = UserTurn(last_call.user_text)
            /\ Conversation[n] = AssistantTurn(FallbackText)
            /\ PendingInput = None
            /\ ~GenerationInFlight

\* C11 witness: the backend returned whitespace only for the second
\* submission.
C11_Witness ==
    /\ last_call.made
    /\ last_call.outcome = [ok |-> TRUE, content |-> <<" ">>]
    /\ Len(Conversation) = 4
    /\ Conversation[4] = AssistantTurn(FallbackText)

\* Sequence s is a prefix of sequence t.
IsPrefix(s, t) == Len(s) <= Len(t) /\ SubSeq(t, 1, Len(s)) = s

\* C12: every step leaves the Conversation unchanged, or extends it at the
\* end (the old Conversation is a prefix of the new one), or, in a pass run
\* for a click on "Clear chat", resets it to empty.
C12_AppendOnlyExceptClear ==
    [][\/ Conversation' = Conversation
       \/ Len(Conversation') > Len(Conversation)
            /\ IsPrefix(Conversation, Conversation')
       \/ Conversation' = <<>> /\ last_event'.kind = "clear"
      ]_vars

\* C12 witness: turns were appended, the Conversation was cleared, and turns
\* were appended again.
C12_Witness ==
    /\ completed = 2
    /\ Len(Conversation) = 2
    /\ last_exit = "rerun_generated"

\* C13: the pass that accepts a submission stores the text, sets
\* is_generating and asks for a re-run, and neither appends a turn nor
\* calls the backend; the backend is called only in a pass that started with
\* is_generating true and the text pending.
C13_TwoPassSplit ==
    [][/\ accepted' = accepted + 1 =>
            /\ PendingInput' = last_event'.text
            /\ GenerationInFlight'
            /\ rerun_requested'
            /\ Conversation' = Conversation
            /\ backend_calls' = backend_calls
            /\ ~last_call'.made
       /\ backend_calls' # backend_calls =>
            /\ GenerationInFlight
            /\ Truthy(PendingInput)
            /\ accepted' = accepted
            /\ last_call'.user_text = PendingInput
      ]_vars

\* C13 witness: the second submission was just accepted: it is pending, a
\* re-run is requested, and the Conversation and the calls are those of the
\* first cycle.
C13_Witness ==
    /\ last_exit = "rerun_submit"
    /\ rerun_requested
    /\ GenerationInFlight
    /\ PendingInput = <<"q2">>
    /\ Len(Conversation) = 2
    /\ backend_calls = 1
    /\ ~last_call.made
\* C14: when a cycle completes, the user turn of the pending submission
\* stands once in the Conversation: the completing pass leaves the
\* Conversation ending in that one user turn and the assistant turn, and
\* the turn before them, if there is one, is not a user turn.
C14_UserTurnOnce ==
    [][completed' = completed + 1 =>
          LET n == Len(Conversation')
          IN  /\ n >= 2
              /\ Conversation'[n - 1] = UserTurn(PendingInput)
              /\ Conversation'[n].role = "assistant"
              /\ n >= 3 => Conversation'[n - 2].role # "user"
      ]_vars
\* How many messages of a request, or turns of a conversation, hold the text.
Occurrences(text, msgs) ==
    Cardinality({i \in 1..Len(msgs) : msgs[i].content = text})

\* C15 as stated: the request of a generation pass is built from the
\* Conversation as it was before the pass and ends in the pending text, and
\* the pending text stands exactly once in the request.
C15_Original ==
    [][backend_calls' = backend_calls + 1 =>
          /\ last_call'.chat_history = Conversation
          /\ last_call'.user_text = PendingInput
          /\ last_call'.lc_messages[Len(last_call'.lc_messages)] =
               [type |-> "human", content |-> PendingInput]
          /\ Occurrences(PendingInput, last_call'.lc_messages) = 1
      ]_vars

\* C15 as amended: the request of a generation pass is built from the
\* Conversation as it was before the pass (the user turn the pass appends
\* is not in the history), it holds one message per earlier turn after the
\* two system messages, and it ends in the pending text; the pending text
\* stands in the request once more than in the earlier Conversation, so
\* exactly once when no earlier turn holds the same text.
C15_RequestExcludesPendingTurn ==
    [][backend_calls' = backend_calls + 1 =>
          LET msgs == last_call'.lc_messages
          IN  /\ last_call'.chat_history = Conversation
              /\ last_call'.user_text = PendingInput
              /\ Len(msgs) = Len(Conversation) + 3
              /\ \A i \in 1..Len(Conversation) :
                    msgs[i + 2].content = Conversation[i].content
              /\ msgs[Len(msgs)] = [type |-> "human", content |-> PendingInput]
              /\ Occurrences(PendingInput, msgs) =
                    Occurrences(PendingInput, Conversation) + 1
              /\ Occurrences(PendingInput, Conversation) = 0 =>
                    Occurrences(PendingInput, msgs) = 1
      ]_vars

\* C15 witness: a request was sent for a text that an earlier turn of the
\* Conversation holds already.
C15_Witness ==
    /\ last_call.made
    /\ Len(last_call.chat_history) = 2
    /\ last_call.chat_history[1] = UserTurn(last_call.user_text)
    /\ Len(last_call.lc_messages) = 5
    /\ Occurrences(last_call.user_text, last_call.lc_messages) = 2
\* A value that yields a usable key: set, and not blank.
Usable(v) == v # None /\ Strip(v) # <<>>

\* C16: the resolver returns the trimmed value of the key field when that is
\* not empty; otherwise the first of GOOGLE_API_KEY, GEMINI_API_KEY that
\* yields a usable value; and the empty string only when neither the key
\* field nor either variable yields a usable value.
C16_ResolvePrecedence ==
    resolved # None =>
        LET key == SubSeq(resolved, 2, Len(resolved))
            google == environ.GOOGLE_API_KEY
            gemini == environ.GEMINI_API_KEY
        IN  /\ Usable(api_key_input) => key = Strip(api_key_input)
            /\ (~Usable(api_key_input) /\ Usable(google)) => key = Strip(google)
            /\ (~Usable(api_key_input) /\ ~Usable(google) /\ Usable(gemini)) =>
                  key = Strip(gemini)
            /\ key = <<>> <=>
                  (~Usable(api_key_input) /\ ~Usable(google) /\ ~Usable(gemini))
\* The role the turn at position i has when user and assistant alternate,
\* starting with user.
RoleAt(i) == IF i % 2 = 1 THEN "user" ELSE "assistant"

ClearedWhilePending(p) ==
    /\ last_event.kind = "clear"
    /\ GenerationInFlight
    /\ PendingInput = p
    /\ Conversation = <<>>

\* The cycle of the submission p has ended on an empty history: the backend
\* was given no history and p, and the Conversation is the pair of p and the
\* text stored for the reply.
CycleEndedWithPair(p) ==
    /\ Idle
    /\ last_call.made
    /\ last_call.chat_history = <<>>
    /\ last_call.user_text = p
    /\ Conversation =
          <<UserTurn(p),
            AssistantTurn(AssistantText(generate_assistant_reply(last_call.outcome)))>>

\* A clear pass that runs while a submission is pending keeps the
\* submission and the flag, empties the Conversation, calls no backend and
\* asks for a re-run.
ClearKeepsPending ==
    (GenerationInFlight /\ last_event'.kind = "clear") =>
        /\ PendingInput' = PendingInput
        /\ GenerationInFlight'
        /\ Conversation' = <<>>
        /\ rerun_requested'
        /\ backend_calls' = backend_calls

\* With a submission pending and the Conversation empty, a step either
\* keeps the submission pending and the Conversation empty, or is the
\* generation pass, which ends the cycle with the pair.
EmptyHistoryGeneration ==
    (GenerationInFlight /\ Conversation = <<>>) =>
        \/ /\ Conversation' = <<>>
           /\ PendingInput' = PendingInput
           /\ GenerationInFlight'
           /\ backend_calls' = backend_calls
        \/ /\ backend_calls' = backend_calls + 1
           /\ last_exit' = "rerun_generated"
           /\ \E p \in UserTexts : PendingInput = p /\ CycleEndedWithPair(p)'

NonEmptyText(content) == content # None /\ content # <<>>

\* The three forms of a stored assistant text: a reply with no blank at
\* either end, the fallback message, the error message.
AssistantContentForm(content) ==
    \/ content = Strip(content) /\ ~IsBlankText(content)
    \/ content = FallbackText
    \/ IsPrefix(ErrorPrefix, content)

\* Every turn of the Conversation has non-empty content, and an assistant
\* turn has one of the three forms.
TurnsHaveContent ==
    \A i \in 1..Len(Conversation) :
        LET turn == Conversation[i]
        IN  /\ NonEmptyText(turn.content)
            /\ turn.role = "assistant" => AssistantContentForm(turn.content)

\* A step that makes the Conversation longer adds the user turn holding the
\* non-empty PendingInput as it is, followed by the assistant turn.
CommitsPendingVerbatim ==
    Len(Conversation') > Len(Conversation) =>
        /\ NonEmptyText(PendingInput)
        /\ Len(Conversation') = Len(Conversation) + 2
        /\ Conversation'[Len(Conversation) + 1] = UserTurn(PendingInput)
        /\ Conversation'[Len(Conversation) + 2].role = "assistant"

\* C19: every turn ever committed to the Conversation has non-empty
\* content: a user turn holds the non-empty PendingInput verbatim, and an
\* assistant turn holds the trimmed non-empty reply, the fallback message or
\* the error message, never an empty string.
C19_TurnsNeverEmpty == []TurnsHaveContent /\ [][CommitsPendingVerbatim]_vars

\* C19 witness: a Conversation that holds a trimmed reply, then, for a blank
\* reply, the fallback message.
C19_Witness ==
    /\ Len(Conversation) = 4
    /\ Conversation[2] = AssistantTurn(<<"answer">>)
    /\ Conversation[4] = AssistantTurn(FallbackText)
    /\ Conversation[3].role = "user"
====
